---------------------------- MODULE Spec2Model ----------------------------
(***************************************************************************)
(* A model of offset.c: main() makes one printf call that reports          *)
(* offsetof/sizeof of struct stat and a dozen platform constants as one    *)
(* line of text on standard output.                                        *)
(*                                                                         *)
(* Integer values are little-endian byte sequences of the width of their C *)
(* type, so that widening, truncation and decimal conversion are carried   *)
(* out at the width the build uses.  Text is a TLA+ string.                *)
(***************************************************************************)
EXTENDS Integers, Sequences, FiniteSets, TLC

(***************************************************************************)
(* Bounds of the model.                                                    *)
(***************************************************************************)
\* The largest number of command-line arguments after the program name.
MaxArgs == 1
\* The number of bytes a full device accepts before it reports ENOSPC.
PartialLen == 10

(***************************************************************************)
(* Fixed-width integers.                                                   *)
(***************************************************************************)
Byte == 0..255

\* The w-byte object representation of the natural number n.
ToBytes[n \in Nat, w \in Nat] ==
    IF w = 0 THEN <<>> ELSE <<n % 256>> \o ToBytes[n \div 256, w - 1]

AllOnes(w) == [i \in 1..w |-> 255]

IsZero(b) == \A i \in 1..Len(b) : b[i] = 0

IsNegative(b) == b[Len(b)] >= 128

\* Widening conversions between integer types: the value is kept.
SignExtend(b, w) == b \o [i \in 1..(w - Len(b)) |-> IF IsNegative(b) THEN 255 ELSE 0]
ZeroExtend(b, w) == b \o [i \in 1..(w - Len(b)) |-> 0]

LowBytes(b, w) == SubSeq(b, 1, w)
HighBytes(b, w) == SubSeq(b, Len(b) - w + 1, Len(b))

\* b + c at the width of b.
AddCarry[b \in Seq(Byte), c \in Nat] ==
    IF b = <<>> THEN <<>>
    ELSE LET s == Head(b) + c
         IN  <<s % 256>> \o AddCarry[Tail(b), s \div 256]

\* Two's complement negation at the width of b.
Negate(b) == LET inv == [i \in 1..Len(b) |-> 255 - b[i]] IN AddCarry[inv, 1]

\* Long division of b by ten, from the most significant byte down:
\* Rem10[b, i] is the remainder left after the bytes from position i up.
Rem10[b \in Seq(Byte), i \in Nat] ==
    IF i > Len(b) THEN 0 ELSE (Rem10[b, i + 1] * 256 + b[i]) % 10

Div10(b) == [i \in 1..Len(b) |-> (Rem10[b, i + 1] * 256 + b[i]) \div 10]

Digit(d) == SubSeq("0123456789", d + 1, d + 1)

\* The decimal digits of b, none for zero.
UDigits[b \in Seq(Byte)] ==
    IF IsZero(b) THEN "" ELSE UDigits[Div10(b)] \o Digit(Rem10[b, 1])

\* printf's unsigned decimal conversion (%u with any length modifier).
UDec[b \in Seq(Byte)] == IF IsZero(b) THEN "0" ELSE UDigits[b]

\* printf's signed decimal conversion (%d with any length modifier).
SDec[b \in Seq(Byte)] == IF IsNegative(b) THEN "-" \o UDec[Negate(b)] ELSE UDec[b]

(***************************************************************************)
(* The build: the data model, the two implementation choices the program   *)
(* depends on, and the platform headers' definitions.                      *)
(***************************************************************************)
\* <sys/stat.h>: struct stat as a list of members (padding members included).
StatLinuxX8664 == <<
    [name |-> "st_dev", size |-> 8, align |-> 8],
    [name |-> "st_ino", size |-> 8, align |-> 8],
    [name |-> "st_nlink", size |-> 8, align |-> 8],
    [name |-> "st_mode", size |-> 4, align |-> 4],
    [name |-> "st_uid", size |-> 4, align |-> 4],
    [name |-> "st_gid", size |-> 4, align |-> 4],
    [name |-> "__pad0", size |-> 4, align |-> 4],
    [name |-> "st_rdev", size |-> 8, align |-> 8],
    [name |-> "st_size", size |-> 8, align |-> 8],
    [name |-> "st_blksize", size |-> 8, align |-> 8],
    [name |-> "st_blocks", size |-> 8, align |-> 8],
    [name |-> "st_atim", size |-> 16, align |-> 8],
    [name |-> "st_mtim", size |-> 16, align |-> 8],
    [name |-> "st_ctim", size |-> 16, align |-> 8],
    [name |-> "__glibc_reserved", size |-> 24, align |-> 8] >>

StatLinuxI386 == <<
    [name |-> "st_dev", size |-> 8, align |-> 4],
    [name |-> "__pad1", size |-> 2, align |-> 2],
    [name |-> "st_ino", size |-> 4, align |-> 4],
    [name |-> "st_mode", size |-> 4, align |-> 4],
    [name |-> "st_nlink", size |-> 4, align |-> 4],
    [name |-> "st_uid", size |-> 4, align |-> 4],
    [name |-> "st_gid", size |-> 4, align |-> 4],
    [name |-> "st_rdev", size |-> 8, align |-> 4],
    [name |-> "__pad2", size |-> 2, align |-> 2],
    [name |-> "st_size", size |-> 4, align |-> 4],
    [name |-> "st_blksize", size |-> 4, align |-> 4],
    [name |-> "st_blocks", size |-> 4, align |-> 4],
    [name |-> "st_atim", size |-> 8, align |-> 4],
    [name |-> "st_mtim", size |-> 8, align |-> 4],
    [name |-> "st_ctim", size |-> 8, align |-> 4],
    [name |-> "__glibc_reserved", size |-> 8, align |-> 4] >>

StatDarwinArm64 == <<
    [name |-> "st_dev", size |-> 4, align |-> 4],
    [name |-> "st_mode", size |-> 2, align |-> 2],
    [name |-> "st_nlink", size |-> 2, align |-> 2],
    [name |-> "st_ino", size |-> 8, align |-> 8],
    [name |-> "st_uid", size |-> 4, align |-> 4],
    [name |-> "st_gid", size |-> 4, align |-> 4],
    [name |-> "st_rdev", size |-> 4, align |-> 4],
    [name |-> "st_atimespec", size |-> 16, align |-> 8],
    [name |-> "st_mtimespec", size |-> 16, align |-> 8],
    [name |-> "st_ctimespec", size |-> 16, align |-> 8],
    [name |-> "st_birthtimespec", size |-> 16, align |-> 8],
    [name |-> "st_size", size |-> 8, align |-> 8],
    [name |-> "st_blocks", size |-> 8, align |-> 8],
    [name |-> "st_blksize", size |-> 4, align |-> 4],
    [name |-> "st_flags", size |-> 4, align |-> 4],
    [name |-> "st_gen", size |-> 4, align |-> 4],
    [name |-> "st_lspare", size |-> 4, align |-> 4],
    [name |-> "st_qspare", size |-> 16, align |-> 8] >>

\* A C runtime whose long is 32 bits wide and whose size_t is 64 bits wide.
StatLLP64 == <<
    [name |-> "st_dev", size |-> 4, align |-> 4],
    [name |-> "st_ino", size |-> 2, align |-> 2],
    [name |-> "st_mode", size |-> 2, align |-> 2],
    [name |-> "st_nlink", size |-> 2, align |-> 2],
    [name |-> "st_uid", size |-> 2, align |-> 2],
    [name |-> "st_gid", size |-> 2, align |-> 2],
    [name |-> "st_rdev", size |-> 4, align |-> 4],
    [name |-> "st_size", size |-> 8, align |-> 8],
    [name |-> "st_atime", size |-> 8, align |-> 8],
    [name |-> "st_mtime", size |-> 8, align |-> 8],
    [name |-> "st_ctime", size |-> 8, align |-> 8] >>

\* <fcntl.h> and <sys/mman.h>: the values POSIX systems give the macros.
\* MAP_FAILED is ((void *) -1): a pointer whose bits are all ones.
Headers(ptrBytes) ==
    [O_RDONLY |-> 0, O_WRONLY |-> 1, O_RDWR |-> 2,
     PROT_READ |-> 1, PROT_WRITE |-> 2,
     MADV_NORMAL |-> 0, MADV_RANDOM |-> 1, MADV_SEQUENTIAL |-> 2,
     MADV_WILLNEED |-> 3, MADV_DONTNEED |-> 4,
     MAP_FAILED |-> AllOnes(ptrBytes), MAP_SHARED |-> 1]

\* The widths, in bytes, of int, long, size_t, long long and void *.
ILP32 == [name |-> "ILP32", int |-> 4, long |-> 4, size_t |-> 4, longlong |-> 8, ptr |-> 4]
LP64  == [name |-> "LP64",  int |-> 4, long |-> 8, size_t |-> 8, longlong |-> 8, ptr |-> 8]
LLP64 == [name |-> "LLP64", int |-> 4, long |-> 4, size_t |-> 8, longlong |-> 8, ptr |-> 8]

\* ptrToInt: how the compiler converts a pointer to a wider integer type,
\*   which C leaves implementation-defined (6.3.2.3p6): "sign" or "zero".
\* vaMismatch: which half of a wider argument a narrower conversion
\*   specification reads, which C leaves undefined (7.21.6.1p9).
MkBuild(dm, stat, ptrToInt, vaMismatch) ==
    [dm |-> dm, stat |-> stat, hdr |-> Headers(dm.ptr),
     ptrToInt |-> ptrToInt, vaMismatch |-> vaMismatch]

Builds ==
    {MkBuild(ILP32, StatLinuxI386, c, "low") : c \in {"sign", "zero"}}
    \cup {MkBuild(LP64, s, "sign", "low") : s \in {StatLinuxX8664, StatDarwinArm64}}
    \cup {MkBuild(LLP64, StatLLP64, "sign", v) : v \in {"low", "high"}}

(***************************************************************************)
(* The operands of the printf call.                                        *)
(***************************************************************************)
AlignUp(n, a) == ((n + a - 1) \div a) * a

\* The offset of member m of struct s: each member is placed at the next
\* multiple of its alignment.
OffsetOf(s, m) ==
    LET place[i \in 1..Len(s), off \in Nat] ==
            LET at == AlignUp(off, s[i].align)
            IN  IF s[i].name = m THEN at ELSE place[i + 1, at + s[i].size]
    IN  place[1, 0]

\* The size of struct s: the end of its last member, rounded up to the
\* strictest alignment of its members.
SizeOf(s) ==
    LET end[i \in 1..(Len(s) + 1), off \in Nat] ==
            IF i > Len(s) THEN off
            ELSE end[i + 1, AlignUp(off, s[i].align) + s[i].size]
        aligns == {s[i].align : i \in 1..Len(s)}
    IN  AlignUp(end[1, 0], CHOOSE a \in aligns : \A x \in aligns : x <= a)

\* (long long) MAP_FAILED
PtrToLongLong(b, ptr) ==
    IF Len(ptr) >= b.dm.longlong THEN LowBytes(ptr, b.dm.longlong)
    ELSE IF b.ptrToInt = "sign" THEN SignExtend(ptr, b.dm.longlong)
    ELSE ZeroExtend(ptr, b.dm.longlong)

IntArg(b, n) == [type |-> "int", bytes |-> ToBytes[n, b.dm.int]]

\* MainArgs with argc passed where sizeof(struct stat) belongs.
MainArgsArgc(b, argc, argv) == <<
    [type |-> "size_t", bytes |-> ToBytes[OffsetOf(b.stat, "st_size"), b.dm.size_t]],
    [type |-> "size_t", bytes |-> ToBytes[argc, b.dm.size_t]],
    IntArg(b, b.hdr.O_RDONLY),
    IntArg(b, b.hdr.O_WRONLY),
    IntArg(b, b.hdr.O_RDWR),
    IntArg(b, b.hdr.PROT_READ),
    IntArg(b, b.hdr.PROT_WRITE),
    IntArg(b, b.hdr.MADV_NORMAL),
    IntArg(b, b.hdr.MADV_RANDOM),
    IntArg(b, b.hdr.MADV_SEQUENTIAL),
    IntArg(b, b.hdr.MADV_WILLNEED),
    IntArg(b, b.hdr.MADV_DONTNEED),
    [type |-> "long long", bytes |-> PtrToLongLong(b, b.hdr.MAP_FAILED)],
    IntArg(b, b.hdr.MAP_SHARED) >>

\* The argument list of the printf call, in the order written.  main's
\* parameters argc and argv are in scope and not used.
MainArgs(b, argc, argv) == <<
    [type |-> "size_t", bytes |-> ToBytes[OffsetOf(b.stat, "st_size"), b.dm.size_t]],
    [type |-> "size_t", bytes |-> ToBytes[SizeOf(b.stat), b.dm.size_t]],
    IntArg(b, b.hdr.O_RDONLY),
    IntArg(b, b.hdr.O_WRONLY),
    IntArg(b, b.hdr.O_RDWR),
    IntArg(b, b.hdr.PROT_READ),
    IntArg(b, b.hdr.PROT_WRITE),
    IntArg(b, b.hdr.MADV_NORMAL),
    IntArg(b, b.hdr.MADV_RANDOM),
    IntArg(b, b.hdr.MADV_SEQUENTIAL),
    IntArg(b, b.hdr.MADV_WILLNEED),
    IntArg(b, b.hdr.MADV_DONTNEED),
    [type |-> "long long", bytes |-> PtrToLongLong(b, b.hdr.MAP_FAILED)],
    IntArg(b, b.hdr.MAP_SHARED) >>

\* MainFormat with the last key written as a second MAP_FAILED.
MainFormatRepeatedKey ==
    "{\"statOffset\": %zu, \"statSize\": %lu, \"O_RDONLY\": %d, \"O_WRONLY\": %d, \"O_RDWR\": %d, \"PROT_READ\": %d, \"PROT_WRITE\": %d, \"MADV_NORMAL\": %d, \"MADV_RANDOM\": %d, \"MADV_SEQUENTIAL\": %d, \"MADV_WILLNEED\": %d, \"MADV_DONTNEED\": %d, \"MAP_FAILED\": %lld, \"MAP_FAILED\": %d}\n"

\* The format string of the printf call.
MainFormat ==
    "{\"statOffset\": %zu, \"statSize\": %lu, \"O_RDONLY\": %d, \"O_WRONLY\": %d, \"O_RDWR\": %d, \"PROT_READ\": %d, \"PROT_WRITE\": %d, \"MADV_NORMAL\": %d, \"MADV_RANDOM\": %d, \"MADV_SEQUENTIAL\": %d, \"MADV_WILLNEED\": %d, \"MADV_DONTNEED\": %d, \"MAP_FAILED\": %lld, \"MAP_SHARED\": %d}\n"

(***************************************************************************)
(* printf.                                                                 *)
(***************************************************************************)
\* The n characters of fmt from position i, or as many as are left.
Peek(fmt, i, n) ==
    SubSeq(fmt, i, IF i + n - 1 > Len(fmt) THEN Len(fmt) ELSE i + n - 1)

\* The position of the first % at or after i, or one past the end.
NextPercent[fmt \in STRING, i \in Nat] ==
    IF i > Len(fmt) \/ SubSeq(fmt, i, i) = "%" THEN i ELSE NextPercent[fmt, i + 1]

\* The conversion specification that starts at the % at position i: its
\* length in characters, the type it takes from the argument list, and
\* whether it prints the value as signed.
ConvAt(fmt, i) ==
    IF Peek(fmt, i + 1, 3) = "lld"
    THEN [len |-> 4, type |-> "long long", signed |-> TRUE]
    ELSE IF Peek(fmt, i + 1, 2) = "zu"
    THEN [len |-> 3, type |-> "size_t", signed |-> FALSE]
    ELSE IF Peek(fmt, i + 1, 2) = "lu"
    THEN [len |-> 3, type |-> "unsigned long", signed |-> FALSE]
    ELSE [len |-> 2, type |-> "int", signed |-> TRUE]

WidthOf(b, type) ==
    CASE type = "int" -> b.dm.int
      [] type = "unsigned long" -> b.dm.long
      [] type = "size_t" -> b.dm.size_t
      [] type = "long long" -> b.dm.longlong

\* va_arg(ap, type) applied to the argument arg.  An argument of the width
\* the conversion expects is read as it was passed (size_t and unsigned
\* long of one width have one representation).  A wider one is read in
\* part: which part is the build's vaMismatch.  A narrower one, which no
\* build here passes, is read with zeros above it.
VaArg(b, arg, type) ==
    LET w == WidthOf(b, type)
    IN  IF Len(arg.bytes) = w THEN arg.bytes
        ELSE IF Len(arg.bytes) < w THEN ZeroExtend(arg.bytes, w)
        ELSE IF b.vaMismatch = "low" THEN LowBytes(arg.bytes, w)
        ELSE HighBytes(arg.bytes, w)

\* An argument of the call: its promoted type and its value.
Arg == [type : STRING, bytes : Seq(Byte)]

\* A conversion specification, as ConvAt reads it.
ConvSpec == [len : Nat, type : STRING, signed : BOOLEAN]

\* The text one conversion specification produces for the argument it takes.
Convert[b \in Builds, conv \in ConvSpec, arg \in Arg] ==
    IF conv.signed THEN SDec[VaArg(b, arg, conv.type)]
    ELSE UDec[VaArg(b, arg, conv.type)]

\* The text printf(fmt, args...) produces.  scan[i, k] is what the scan of
\* the format produces from position i on, with k arguments consumed:
\* ordinary characters are copied up to the next %, and each conversion
\* specification takes the next argument.
Printf[b \in Builds, fmt \in STRING, args \in Seq(Arg)] ==
    LET scan[i \in 1..(Len(fmt) + 1), k \in 0..Len(args)] ==
            IF i > Len(fmt) THEN ""
            ELSE IF SubSeq(fmt, i, i) = "%"
            THEN Convert[b, ConvAt(fmt, i), args[k + 1]]
                    \o scan[i + ConvAt(fmt, i).len, k + 1]
            ELSE SubSeq(fmt, i, NextPercent[fmt, i] - 1)
                    \o scan[NextPercent[fmt, i], k]
    IN  scan[1, 0]

(***************************************************************************)
(* The process: main's body, the stdio stream behind standard output, and  *)
(* the part of the system the included headers give access to.             *)
(***************************************************************************)
\* A body that examines a file before it prints.
MainBodyWithStat == <<"stat", "printf">>

\* The calls main's body makes, in order.
MainBody == <<"printf">>

\* A main that returns whatever the printf call left as its result.
MainReturnLeftover(ret) == ret[1]

\* A main that reports a failed printf call.
MainReturnChecked(ret) == IF ret[1] < 0 THEN 1 ELSE 0

\* The value main returns when control reaches its closing brace; ret is
\* the result of the printf call, which main does not keep.
MainReturn(ret) == 0

\* A printf call that also prints the first command-line argument.
CallTextEcho(fn, b, argc, argv) ==
    IF fn = "printf"
    THEN Printf[b, MainFormat, MainArgs(b, argc, argv)] \o (IF argc > 1 THEN argv[2] ELSE "")
    ELSE ""

\* The text a call appends to the standard output stream.
CallText(fn, b, argc, argv) ==
    IF fn = "printf" THEN Printf[b, MainFormat, MainArgs(b, argc, argv)] ELSE ""

\* What a call does to the rest of the system: the files opened, examined,
\* mapped and advised, and the text on standard error.
CallWorld(fn, w) ==
    CASE fn = "printf"  -> w
      [] fn = "open"    -> [w EXCEPT !.opened = @ + 1]
      [] fn = "stat"    -> [w EXCEPT !.statted = @ + 1]
      [] fn = "mmap"    -> [w EXCEPT !.mapped = @ + 1]
      [] fn = "madvise" -> [w EXCEPT !.advised = @ + 1]
      [] fn = "perror"  -> [w EXCEPT !.stderr = @ \o "error\n"]

InitWorld == [opened |-> 0, statted |-> 0, mapped |-> 0, advised |-> 0, stderr |-> ""]

\* write(1, text): what reaches the device behind descriptor 1, and whether
\* all of it did.
Write(d, text) ==
    CASE d = "ok"     -> [out |-> text, ok |-> TRUE]
      [] d = "closed" -> [out |-> "", ok |-> FALSE]
      [] d = "full"   -> [out |-> Peek(text, 1, PartialLen), ok |-> Len(text) <= PartialLen]

EndsWithNewline(t) == t # "" /\ SubSeq(t, Len(t), Len(t)) = "\n"

Runs == {1, 2}
ProgName == "offset"
ArgWords == {"--help"}
ArgVectors ==
    {<<ProgName>> \o a : a \in UNION {[1..k -> ArgWords] : k \in 0..MaxArgs}}
Devices == {"ok", "closed", "full"}
BufModes == {"line", "full"}

VARIABLES
    build,      \* the platform and compiler the program was built with
    pc,         \* per run: "idle", "main", "returned" or "done"
    ip,         \* per run: the statement of MainBody to execute next
    argv,       \* per run: the argument vector
    dev,        \* per run: the state of the device behind descriptor 1
    mode,       \* per run: the buffering of stdout
    stream,     \* per run: the text the program has written to stdout
    pending,    \* per run: the text in stdout's buffer
    delivered,  \* per run: the text that reached the device
    writes,     \* per run: the times stdio handed its buffer to the device
    ret,        \* per run: the result of the last call, <<>> before it
    status,     \* per run: the exit status, <<>> before main returns
    world       \* files, mappings and standard error

vars == <<build, pc, ip, argv, dev, mode, stream, pending, delivered, writes,
          ret, status, world>>

Init ==
    /\ build \in Builds
    /\ pc = [r \in Runs |-> "idle"]
    /\ ip = [r \in Runs |-> 1]
    /\ argv = [r \in Runs |-> <<ProgName>>]
    /\ dev = [r \in Runs |-> "ok"]
    /\ mode = [r \in Runs |-> "line"]
    /\ stream = [r \in Runs |-> ""]
    /\ pending = [r \in Runs |-> ""]
    /\ delivered = [r \in Runs |-> ""]
    /\ writes = [r \in Runs |-> 0]
    /\ ret = [r \in Runs |-> <<>>]
    /\ status = [r \in Runs |-> <<>>]
    /\ world = InitWorld

\* The program is started: the caller chooses the arguments and what
\* standard output is connected to.  Runs follow one another.
Start(r) ==
    /\ pc[r] = "idle"
    /\ \A q \in Runs : q < r => pc[q] = "done"
    /\ \E av \in ArgVectors, d \in Devices, m \in BufModes :
        /\ argv' = [argv EXCEPT ![r] = av]
        /\ dev' = [dev EXCEPT ![r] = d]
        /\ mode' = [mode EXCEPT ![r] = m]
    /\ pc' = [pc EXCEPT ![r] = "main"]
    /\ UNCHANGED <<build, ip, stream, pending, delivered, writes, ret, status, world>>

\* main executes the next call of its body.  A line-buffered stdout hands
\* its buffer to the device when the buffer ends in a newline; the call
\* then reports whether the write succeeded.
Call(r) ==
    /\ pc[r] = "main"
    /\ ip[r] <= Len(MainBody)
    /\ \E text \in {CallText(MainBody[ip[r]], build, Len(argv[r]), argv[r])} :
       LET buf == pending[r] \o text
           wr  == Write(dev[r], buf)
       IN  /\ stream' = [stream EXCEPT ![r] = @ \o text]
           /\ world' = CallWorld(MainBody[ip[r]], world)
           /\ IF mode[r] = "line" /\ EndsWithNewline(buf)
              THEN /\ pending' = [pending EXCEPT ![r] = ""]
                   /\ delivered' = [delivered EXCEPT ![r] = @ \o wr.out]
                   /\ writes' = [writes EXCEPT ![r] = @ + 1]
                   /\ ret' = [ret EXCEPT ![r] = <<IF wr.ok THEN Len(text) ELSE -1>>]
              ELSE /\ pending' = [pending EXCEPT ![r] = buf]
                   /\ ret' = [ret EXCEPT ![r] = <<Len(text)>>]
                   /\ UNCHANGED <<delivered, writes>>
    /\ ip' = [ip EXCEPT ![r] = @ + 1]
    /\ UNCHANGED <<build, pc, argv, dev, mode, status>>

\* Control reaches the closing brace of main.
Return(r) ==
    /\ pc[r] = "main"
    /\ ip[r] > Len(MainBody)
    /\ status' = [status EXCEPT ![r] = <<MainReturn(ret[r])>>]
    /\ pc' = [pc EXCEPT ![r] = "returned"]
    /\ UNCHANGED <<build, ip, argv, dev, mode, stream, pending, delivered,
                   writes, ret, world>>

\* The return from main calls exit, which flushes stdout; the process ends
\* with the status main returned.
Exit(r) ==
    /\ pc[r] = "returned"
    /\ IF pending[r] # ""
       THEN /\ delivered' = [delivered EXCEPT ![r] = @ \o Write(dev[r], pending[r]).out]
            /\ writes' = [writes EXCEPT ![r] = @ + 1]
            /\ pending' = [pending EXCEPT ![r] = ""]
       ELSE UNCHANGED <<delivered, writes, pending>>
    /\ pc' = [pc EXCEPT ![r] = "done"]
    /\ UNCHANGED <<build, ip, argv, dev, mode, stream, ret, status, world>>

Next == \E r \in Runs : Start(r) \/ Call(r) \/ Return(r) \/ Exit(r)

Spec == Init /\ [][Next]_vars

\* The process is scheduled until it ends.
FairSpec == Spec /\ WF_vars(Next)

(***************************************************************************)
(* The reader of the output: the line as a flat record of keys and decimal *)
(* numbers, which is how the claims below look at what was written.        *)
(***************************************************************************)
Digits == {Digit(d) : d \in 0..9}

DigitValue(c) == CHOOSE d \in 0..9 : Digit(d) = c

\* The first position at or after i where t has the character c, or 0.
IndexFrom[t \in STRING, i \in Nat, c \in STRING] ==
    IF i > Len(t) THEN 0
    ELSE IF SubSeq(t, i, i) = c THEN i
    ELSE IndexFrom[t, i + 1, c]

\* The last position of the run of digits of t that starts at i (i - 1 when
\* there is none).
DigitsEnd[t \in STRING, i \in Nat] ==
    IF i > Len(t) \/ SubSeq(t, i, i) \notin Digits THEN i - 1
    ELSE DigitsEnd[t, i + 1]

BadRecord == [ok |-> FALSE, pairs |-> <<>>]

RECURSIVE ReadPairs(_, _, _)
\* "key": number pairs separated by ", " from position i to the closing
\* brace and the newline that end the text.
ReadPairs(t, i, acc) ==
    LET q == IndexFrom[t, i + 1, "\""]
    IN  IF Peek(t, i, 1) # "\"" \/ q = 0 \/ Peek(t, q + 1, 2) # ": " THEN BadRecord
        ELSE LET from == IF Peek(t, q + 3, 1) = "-" THEN q + 4 ELSE q + 3
                 e    == DigitsEnd[t, from]
                 pair == [key |-> SubSeq(t, i + 1, q - 1), val |-> SubSeq(t, q + 3, e)]
             IN  IF e < from THEN BadRecord
                 ELSE IF Peek(t, e + 1, 2) = ", "
                 THEN ReadPairs(t, e + 3, Append(acc, pair))
                 ELSE IF SubSeq(t, e + 1, Len(t)) = "}\n"
                 THEN [ok |-> TRUE, pairs |-> Append(acc, pair)]
                 ELSE BadRecord

ReadRecord(t) == IF Peek(t, 1, 1) = "{" THEN ReadPairs(t, 2, <<>>) ELSE BadRecord

\* The text is one line: its only newline is its last character.
IsOneLine(t) == t # "" /\ {j \in 1..Len(t) : SubSeq(t, j, j) = "\n"} = {Len(t)}

KeysOf(rec) == {rec.pairs[i].key : i \in 1..Len(rec.pairs)}

\* The decimal text printed for key k, or "" when the record has no such key.
ValueOf(rec, k) ==
    LET at == {i \in 1..Len(rec.pairs) : rec.pairs[i].key = k}
    IN  IF at = {} THEN "" ELSE rec.pairs[CHOOSE i \in at : TRUE].val

RECURSIVE MulAdd(_, _, _)
MulAdd(b, m, c) ==
    IF b = <<>> THEN <<>>
    ELSE LET s == Head(b) * m + c
         IN  <<s % 256>> \o MulAdd(Tail(b), m, s \div 256)

RECURSIVE ReadDigits(_, _)
ReadDigits(t, acc) ==
    IF t = "" THEN acc
    ELSE ReadDigits(Tail(t), MulAdd(acc, 10, DigitValue(Head(t))))

\* A decimal text as a 64-bit two's complement integer.
ReadDec(t) ==
    IF Peek(t, 1, 1) = "-" THEN Negate(ReadDigits(Tail(t), ToBytes[0, 8]))
    ELSE ReadDigits(t, ToBytes[0, 8])

RECURSIVE ReadNat(_, _)
\* A short text of digits as a natural number.
ReadNat(t, acc) ==
    IF t = "" THEN acc ELSE ReadNat(Tail(t), acc * 10 + DigitValue(Head(t)))

ExpectedKeys ==
    {"statOffset", "statSize", "O_RDONLY", "O_WRONLY", "O_RDWR", "PROT_READ",
     "PROT_WRITE", "MADV_NORMAL", "MADV_RANDOM", "MADV_SEQUENTIAL",
     "MADV_WILLNEED", "MADV_DONTNEED", "MAP_FAILED", "MAP_SHARED"}

\* Run r has made its printf call.
Printed(r) == pc[r] # "idle" /\ ip[r] > Len(MainBody)

Done(r) == pc[r] = "done"

(***************************************************************************)
(* C1: every execution writes exactly one newline-terminated line, and the *)
(* line is a flat record whose keys are exactly the 14 expected keys, each *)
(* once.  Nothing is written before the printf call, and nothing after it. *)
(***************************************************************************)
C1_OneRecordWithExactKeys ==
    \A r \in Runs :
        /\ ~Printed(r) => stream[r] = ""
        /\ Printed(r) =>
            LET rec == ReadRecord(stream[r])
            IN  /\ IsOneLine(stream[r])
                /\ rec.ok
                /\ Len(rec.pairs) = Cardinality(ExpectedKeys)
                /\ KeysOf(rec) = ExpectedKeys

C1_Witness ==
    \E r \in Runs :
        /\ Done(r)
        /\ ReadRecord(stream[r]).ok
        /\ Len(ReadRecord(stream[r]).pairs) = 14
        /\ delivered[r] = stream[r]

(***************************************************************************)
(* C2: the value printed next to each key is the platform's value of the   *)
(* constant the key names: the i-th pair of the record has the i-th key    *)
(* and the value of that key's constant (for MAP_FAILED, its bit pattern). *)
(***************************************************************************)
KeyOrder ==
    <<"statOffset", "statSize", "O_RDONLY", "O_WRONLY", "O_RDWR", "PROT_READ",
      "PROT_WRITE", "MADV_NORMAL", "MADV_RANDOM", "MADV_SEQUENTIAL",
      "MADV_WILLNEED", "MADV_DONTNEED", "MAP_FAILED", "MAP_SHARED">>

\* The decimal text val shows the platform's value of the constant named k.
ShowsConstant(b, k, val) ==
    CASE k = "statOffset" ->
            ReadDec(val) = ZeroExtend(ToBytes[OffsetOf(b.stat, "st_size"), b.dm.size_t], 8)
      [] k = "statSize" ->
            ReadDec(val) = ZeroExtend(ToBytes[SizeOf(b.stat), b.dm.size_t], 8)
      [] k = "MAP_FAILED" ->
            LowBytes(ReadDec(val), b.dm.ptr) = b.hdr.MAP_FAILED
      [] OTHER ->
            ReadDec(val) = SignExtend(ToBytes[b.hdr[k], b.dm.int], 8)

C2_EachValueIsItsConstant ==
    \A r \in Runs :
        Printed(r) =>
            LET rec == ReadRecord(stream[r])
            IN  /\ rec.ok
                /\ Len(rec.pairs) = Len(KeyOrder)
                /\ \A i \in 1..Len(KeyOrder) :
                    /\ rec.pairs[i].key = KeyOrder[i]
                    /\ ShowsConstant(build, KeyOrder[i], rec.pairs[i].val)

(***************************************************************************)
(* C3: the printed MAP_FAILED is the sentinel widened to 64 bits: reduced  *)
(* modulo 2^(pointer width) it is the sentinel's bit pattern, and when the *)
(* sentinel is all ones the printed text is -1.                            *)
(***************************************************************************)
C3_MapFailedIsMinusOne ==
    \A r \in Runs :
        Printed(r) =>
            LET val == ValueOf(ReadRecord(stream[r]), "MAP_FAILED")
            IN  /\ LowBytes(ReadDec(val), build.dm.ptr) = build.hdr.MAP_FAILED
                /\ build.hdr.MAP_FAILED = AllOnes(build.dm.ptr) => val = "-1"

(***************************************************************************)
(* C4: the arguments are never read: two runs that differ only in their    *)
(* argument vector deliver the same bytes to standard output and end with  *)
(* the same exit status.                                                   *)
(***************************************************************************)
C4_ArgumentsIgnored ==
    (Done(1) /\ Done(2) /\ dev[1] = dev[2] /\ mode[1] = mode[2]) =>
        /\ delivered[1] = delivered[2]
        /\ status[1] = status[2]

C4_Witness ==
    /\ Done(1) /\ Done(2)
    /\ dev[1] = dev[2] /\ mode[1] = mode[2]
    /\ Len(argv[1]) > 1
    /\ argv[2] = <<ProgName>>
    /\ delivered[1] # ""

(***************************************************************************)
(* C5: for a fixed build, any two executions emit byte-identical output,   *)
(* whatever their arguments, their standard output's device and buffering, *)
(* and whatever ran before.                                                *)
(***************************************************************************)
C5_SameOutputEveryRun ==
    (Printed(1) /\ Printed(2)) => stream[1] = stream[2]

C5_Witness ==
    /\ Printed(1) /\ Printed(2)
    /\ stream[2] # ""
    /\ argv[1] # argv[2]
    /\ dev[1] # dev[2]
    /\ mode[1] # mode[2]

(***************************************************************************)
(* C6: the printed statSize is sizeof(struct stat) in decimal, on every    *)
(* data model, also where size_t and unsigned long differ in width.        *)
(***************************************************************************)
C6_StatSizeShownUnchanged ==
    \A r \in Runs :
        Printed(r) =>
            ValueOf(ReadRecord(stream[r]), "statSize")
                = UDec[ToBytes[SizeOf(build.stat), build.dm.size_t]]

(***************************************************************************)
(* C7: in the emitted record, statOffset plus the size of st_size is at    *)
(* most statSize.                                                          *)
(***************************************************************************)
SizeOfMember(s, m) == s[CHOOSE i \in 1..Len(s) : s[i].name = m].size

C7_SizeFieldWithinRecord ==
    \A r \in Runs :
        Printed(r) =>
            LET rec == ReadRecord(stream[r])
            IN  ReadNat(ValueOf(rec, "statOffset"), 0) + SizeOfMember(build.stat, "st_size")
                    <= ReadNat(ValueOf(rec, "statSize"), 0)

(***************************************************************************)
(* C8: every execution terminates, and with the success exit status.       *)
(***************************************************************************)
C8_TerminatesWithSuccess ==
    <>[](\A r \in Runs : Done(r) /\ status[r] = <<0>>)

C8_Witness ==
    \E r \in Runs : Done(r) /\ status[r] = <<0>> /\ ret[r] # <<>> /\ ret[r][1] > 0

(***************************************************************************)
(* C9: the only visible effect of an execution is one output action on     *)
(* standard output: no file is opened or examined, no memory mapped or     *)
(* advised, nothing is written to standard error, and stdio hands its      *)
(* buffer to the device exactly once.                                      *)
(***************************************************************************)
C9_OnlyStdoutIsTouched ==
    /\ world = InitWorld
    /\ \A r \in Runs :
        /\ writes[r] <= 1
        /\ Done(r) => writes[r] = 1
        /\ ~Printed(r) => writes[r] = 0

C9_Witness ==
    \E r \in Runs : Done(r) /\ writes[r] = 1 /\ delivered[r] # "" /\ world = InitWorld

(***************************************************************************)
(* C10: when the write to standard output fails or is cut short, the       *)
(* program still ends with the success status and reports nothing.         *)
(***************************************************************************)
C10_FailedWriteGoesUnreported ==
    \A r \in Runs :
        (Done(r) /\ dev[r] # "ok") =>
            /\ delivered[r] # stream[r]
            /\ status[r] = <<0>>
            /\ world.stderr = ""

C10_Witness ==
    \E r \in Runs :
        /\ Done(r)
        /\ dev[r] = "full"
        /\ mode[r] = "line"
        /\ ret[r] = <<-1>>
        /\ delivered[r] # ""
        /\ delivered[r] # stream[r]
        /\ status[r] = <<0>>

=============================================================================
